---- MODULE Spec2Model ----
(***************************************************************************)
(* PID step size controller (nodes/step_size_controllers/pid_controller.py) *)
(*                                                                         *)
(* Tensors over the batch are sequences indexed by Batch.  A tensor        *)
(* element is a floating point value on a logarithmic grid: NaN, +-Inf, 0  *)
(* or +-10^e for an integer e.  Products, quotients, powers, comparisons,  *)
(* minima, maxima and clamps are computed on that grid with the IEEE rules *)
(* for the special values; a power with a fractional exponent rounds down  *)
(* to the grid.  The value of self.norm(...) (a user supplied callable     *)
(* applied to data the stepping method supplies) is an input of the call.  *)
(***************************************************************************)
EXTENDS Integers, Sequences, FiniteSets, TLC

VARIABLES self, state, previous, ret, pc

vars == <<self, state, previous, ret, pc>>

\* Largest decimal exponent of the norms fed to adapt_step_size.
MaxExp == 1

Batch == 1 .. 2

(***************************************************************************)
(* Floating point values                                                   *)
(***************************************************************************)
NaN == [k |-> "nan", s |-> 1, e |-> 0]
Inf(sgn) == [k |-> "inf", s |-> sgn, e |-> 0]
Zero == [k |-> "zero", s |-> 1, e |-> 0]
Num(sgn, ex) == [k |-> "num", s |-> sgn, e |-> ex]
One == Num(1, 0)

\* an absent optional value
None == [k |-> "none", s |-> 1, e |-> 0]

IsNaN(a) == a.k = "nan"

IsInf(a) == a.k = "inf"

\* torch.isfinite
IsFinite(a) == a.k \in {"zero", "num"}

\* Position of a value that is not NaN on the real line.
Key(a) ==
  CASE a.k = "zero" -> 0
    [] a.k = "inf" -> a.s * 2000000
    [] a.k = "num" -> a.s * (1000000 + a.e)

\* a < b and a <= b on floats: false when either side is NaN.
Lt(a, b) == ~IsNaN(a) /\ ~IsNaN(b) /\ Key(a) < Key(b)
Le(a, b) == ~IsNaN(a) /\ ~IsNaN(b) /\ Key(a) <= Key(b)

\* torch.maximum / torch.minimum: NaN propagates.
Maximum(a, b) == IF IsNaN(a) \/ IsNaN(b) THEN NaN ELSE IF Lt(a, b) THEN b ELSE a
Minimum(a, b) == IF IsNaN(a) \/ IsNaN(b) THEN NaN ELSE IF Lt(b, a) THEN b ELSE a

Abs(a) == IF a.k \in {"inf", "num"} THEN [a EXCEPT !.s = 1] ELSE a

Mul(a, b) ==
  IF IsNaN(a) \/ IsNaN(b) THEN NaN
  ELSE IF IsInf(a) \/ IsInf(b)
       THEN IF a = Zero \/ b = Zero THEN NaN ELSE Inf(a.s * b.s)
  ELSE IF a = Zero \/ b = Zero THEN Zero
  ELSE Num(a.s * b.s, a.e + b.e)

Div(a, b) ==
  IF IsNaN(a) \/ IsNaN(b) THEN NaN
  ELSE IF IsInf(a) THEN (IF IsInf(b) THEN NaN ELSE Inf(a.s * b.s))
  ELSE IF IsInf(b) THEN Zero
  ELSE IF b = Zero THEN (IF a = Zero THEN NaN ELSE Inf(a.s))
  ELSE IF a = Zero THEN Zero
  ELSE Num(a.s * b.s, a.e - b.e)

\* a ** (n / d) for d > 0: anything ** 0 is 1 (NaN included); a negative base
\* with a fractional exponent is NaN; the result is rounded down to the grid.
Pow(a, n, d) ==
  IF n = 0 THEN One
  ELSE IF IsNaN(a) THEN NaN
  ELSE IF a = Zero THEN (IF n > 0 THEN Zero ELSE Inf(1))
  ELSE IF a.s = -1 THEN NaN
  ELSE IF IsInf(a) THEN (IF n > 0 THEN Inf(1) ELSE Zero)
  ELSE Num(1, (a.e * n) \div d)

\* torch.clamp(x, lo, hi) with optional bounds: NaN propagates, hi wins.
Clamp(x, lo, hi) ==
  IF IsNaN(x) THEN NaN
  ELSE LET y == IF lo # None /\ Lt(x, lo) THEN lo ELSE x
       IN IF hi # None /\ Lt(hi, y) THEN hi ELSE y

(***************************************************************************)
(* PIDState (torchode): the state threaded through the solve loop          *)
(***************************************************************************)
\* small positive floor of the error ratio
AlmostZero == Num(1, -5)

\* PIDState.default: both history slots hold the neutral ratio 1.0
PIDStateDefault(method_order, dt_min, dt_max) ==
  [method_order |-> method_order,
   prev_error_ratio |-> [i \in Batch |-> One],
   prev_prev_error_ratio |-> [i \in Batch |-> One],
   almost_zero |-> AlmostZero,
   dt_min |-> dt_min,
   dt_max |-> dt_max]

\* PIDState.update_error_ratios: only the two history fields are replaced
update_error_ratios(st, prev_error_ratio, prev_prev_error_ratio) ==
  [st EXCEPT !.prev_error_ratio = prev_error_ratio,
             !.prev_prev_error_ratio = prev_prev_error_ratio]

\* torch.where(cond, a, b) on batch tensors
Where(cond, a, b) == [i \in Batch |-> IF cond[i] THEN a[i] ELSE b[i]]

(***************************************************************************)
(* PIDController                                                           *)
(***************************************************************************)
dt_factor(slf, st, error_ratio) ==
  LET order == st.method_order
      factor(i) ==
        LET factor1 == Pow(error_ratio[i], -(slf.icoeff + slf.pcoeff + slf.dcoeff), order)
            factor2 == Pow(st.prev_error_ratio[i], slf.pcoeff + 2 * slf.dcoeff, order)
            factor3 == Pow(st.prev_prev_error_ratio[i], -slf.dcoeff, order)
        IN Mul(Mul(Mul(slf.safety, factor1), factor2), factor3)
  IN [i \in Batch |-> Clamp(factor(i), slf.factor_min, slf.factor_max)]

initial_state(method_order, dt_min, dt_max) ==
  PIDStateDefault(method_order, dt_min, dt_max)

\* fault: the two branches of the select exchanged
merge_states_swapped(running, current, prev) ==
  update_error_ratios(current,
    Where(running, prev.prev_error_ratio, current.prev_error_ratio),
    Where(running, prev.prev_prev_error_ratio, current.prev_prev_error_ratio))

merge_states(running, current, prev) ==
  update_error_ratios(current,
    Where(running, current.prev_error_ratio, prev.prev_error_ratio),
    Where(running, current.prev_prev_error_ratio, prev.prev_prev_error_ratio))

\* fault: the history is left as it was
NeutralHistory_kept(st) ==
  update_error_ratios(st, st.prev_error_ratio, st.prev_prev_error_ratio)

\* update_state, error_ratio is None
NeutralHistory(st) ==
  update_error_ratios(st, [i \in Batch |-> One], st.prev_error_ratio)

\* fault: the history is shifted whether or not the step is accepted
ShiftHistory_always(st, error_ratio, accept) ==
  update_error_ratios(st, error_ratio, st.prev_error_ratio)

\* fault: prev_prev_error_ratio is never replaced
ShiftHistory_prev_only(st, error_ratio, accept) ==
  update_error_ratios(st,
    Where(accept, error_ratio, st.prev_error_ratio),
    st.prev_prev_error_ratio)

\* update_state, error_ratio and accept given
ShiftHistory(st, error_ratio, accept) ==
  update_error_ratios(st,
    Where(accept, error_ratio, st.prev_error_ratio),
    Where(accept, st.prev_error_ratio, st.prev_prev_error_ratio))

\* error_ratio = <<>> stands for error_ratio is None
update_state(st, error_ratio, accept) ==
  IF error_ratio = <<>>
  THEN NeutralHistory(st)
  ELSE ShiftHistory(st, error_ratio, accept)

\* fault: no lower bound on the error ratio
ErrorRatio_unfloored(norm, st) == norm

\* error_ratio = torch.maximum(self.norm(error / error_bounds), state.almost_zero)
ErrorRatio(norm, st) == [i \in Batch |-> Maximum(norm[i], st.almost_zero)]

\* fault: error_ratio <= 1.0
Accept_le(error_ratio) == [i \in Batch |-> Le(error_ratio[i], One)]

\* fault: not (error_ratio >= 1.0), which a NaN satisfies
Accept_not_ge(error_ratio) == [i \in Batch |-> ~Le(One, error_ratio[i])]

\* accept = error_ratio < 1.0
Accept(error_ratio) == [i \in Batch |-> Lt(error_ratio[i], One)]

\* fault: only NaN is flagged (isnan for isfinite)
Status_nan_only(error_ratio) ==
  [i \in Batch |-> IF ~IsNaN(error_ratio[i]) THEN "SUCCESS" ELSE "INFINITE_NORM"]

\* status = torch.where(torch.isfinite(error_ratio), SUCCESS, INFINITE_NORM)
Status(error_ratio) ==
  [i \in Batch |-> IF IsFinite(error_ratio[i]) THEN "SUCCESS" ELSE "INFINITE_NORM"]

\* fault: clamps only when both bounds are set (and for or)
Enforce_both_set(dt_next, st) ==
  IF st.dt_min # None /\ st.dt_max # None
  THEN [i \in Batch |-> Clamp(dt_next[i], st.dt_min, st.dt_max)]
  ELSE dt_next

\* Enforce the minimum and maximum step size
Enforce(dt_next, st) ==
  IF st.dt_min # None \/ st.dt_max # None
  THEN [i \in Batch |-> Clamp(dt_next[i], st.dt_min, st.dt_max)]
  ELSE dt_next

\* norm = <<>> stands for step_result.error_estimate is None; otherwise norm
\* is the value of self.norm(error / error_bounds).  A status of <<>> is None.
\* The cast of the factor to dt.dtype keeps a value of the grid (the factor
\* lies within [factor_min, factor_max] or is NaN).
adapt_step_size(slf, dt, norm, st) ==
  IF norm = <<>>
  THEN [accept |-> [i \in Batch |-> TRUE],
        dt_next |-> dt,
        state |-> update_state(st, <<>>, <<>>),
        status |-> <<>>,
        error_ratio |-> <<>>]
  ELSE LET error_ratio == ErrorRatio(norm, st)
           accept == Accept(error_ratio)
           factor == dt_factor(slf, st, error_ratio)
           dt_next == [i \in Batch |-> Mul(dt[i], factor[i])]
       IN [accept |-> accept,
           dt_next |-> Enforce(dt_next, st),
           state |-> update_state(st, error_ratio, accept),
           status |-> Status(error_ratio),
           error_ratio |-> error_ratio]

\* _select_initial_step for one batch element.  d0, d1 are the norms of
\* y0 * inv_scale and f0 * inv_scale, n2 the norm of (f1 - f0) * inv_scale
\* (values of self.norm on what the vector field returns).
select_initial_step(d0, d1, n2, direction, dt_max, convergence_order) ==
  LET small_number == Num(1, -6)
      dt0a == IF Lt(d0, Num(1, -5)) \/ Lt(d1, Num(1, -5))
              THEN small_number
              ELSE Div(Mul(Num(1, -2), d0), d1)
      dt0 == Minimum(dt0a, dt_max)
      d2 == Div(n2, dt0)
      maxd1d2 == Maximum(d1, d2)
      dt1 == IF Le(maxd1d2, Num(1, -15))
             THEN Maximum(small_number, Mul(dt0, Num(1, -3)))
             ELSE Pow(Div(Num(1, -2), maxd1d2), 1, convergence_order)
  IN Mul(direction, Minimum(Mul(Num(1, 2), dt0), dt1))

\* problem.time_direction: the sign of t_end - t_start
TimeDirection(span) == Num(span.s, 0)

\* init: dt0 = <<>> stands for dt0 is None; sel[i].span is t_end - t_start
init(slf, sel, method_order, dt0) ==
  [dt0 |-> IF dt0 = <<>>
           THEN [i \in Batch |->
                  select_initial_step(sel[i].d0, sel[i].d1, sel[i].n2,
                                      TimeDirection(sel[i].span), Abs(sel[i].span),
                                      method_order)]
           ELSE dt0,
   state |-> initial_state(method_order, slf.dt_min, slf.dt_max),
   f0 |-> IF dt0 = <<>> THEN "f0" ELSE "None"]

(***************************************************************************)
(* Inputs                                                                  *)
(***************************************************************************)
\* values of self.norm(...): non-negative, possibly infinite or NaN
NormValues == {NaN, Inf(1), Zero} \cup {Num(1, ex) : ex \in -MaxExp .. MaxExp}

\* step size tensors handed to the controller: forward and backward in time,
\* inside and outside the hard bounds
DtTensors == {<<Num(1, 1), Num(-1, 1)>>, <<Num(1, 3), Num(1, 1)>>}

Orders == 1 .. 2

\* PIDController(...): constructor arguments taken on the grid.  The PID gains
\* are positive, safety is 1, the factor is kept within [0.01, 100], and each
\* hard bound is absent or set (dt_min = 1, dt_max = 100).
Configs ==
  {[pcoeff |-> 1, icoeff |-> 1, dcoeff |-> 1, safety |-> One,
    factor_min |-> Num(1, -2), factor_max |-> Num(1, 2),
    dt_min |-> lo, dt_max |-> hi] :
    lo \in {None, Num(1, 0)}, hi \in {None, Num(1, 2)}}

\* per element inputs of the initial-step heuristic
SelElem ==
  [d0 : {Zero, One}, d1 : {Zero, One}, n2 : {Zero, One},
   span : {Num(1, -3), Num(-1, -3), Num(1, 0), Num(-1, 0)}]

\* arguments of init: an explicit dt0, or none and the heuristic's inputs
InitArgs ==
  {[method_order |-> m, sel |-> <<>>, dt0 |-> d] :
     m \in Orders, d \in DtTensors}
  \cup {[method_order |-> m, sel |-> x, dt0 |-> <<>>] :
     m \in Orders, x \in [Batch -> SelElem]}

\* history values of the PIDStates handed to merge_states on its own: the
\* neutral ratio and an accepted one
HistoryValues == {One, Num(1, -1)}

MergeArgs ==
  {[st EXCEPT !.prev_error_ratio = p, !.prev_prev_error_ratio = pp] :
     st \in {initial_state(m, self.dt_min, self.dt_max) : m \in Orders},
     p \in [Batch -> HistoryValues], pp \in [Batch -> HistoryValues]}

(***************************************************************************)
(* The solve loop drives the controller: init, then adapt_step_size and    *)
(* merge_states once per step attempt.  pc is the loop's position, ret the *)
(* last call with its arguments and what it returned, previous the         *)
(* PIDState the loop passed to adapt_step_size (the call returns a new     *)
(* object and leaves its argument as it was).                              *)
(***************************************************************************)
NoCall ==
  [op |-> "", method_order |-> 0, dt |-> <<>>, norm |-> <<>>, error_ratio |-> <<>>,
   accept |-> <<>>, dt_next |-> <<>>, status |-> <<>>, running |-> <<>>,
   current |-> <<>>, sel |-> <<>>, dt0 |-> <<>>, f0 |-> "None"]

\* no PIDState exists before init
NoState ==
  [method_order |-> 0, prev_error_ratio |-> <<>>, prev_prev_error_ratio |-> <<>>,
   almost_zero |-> None, dt_min |-> None, dt_max |-> None]

\* a controller has been constructed; the loop is about to call init
Init ==
  /\ self \in Configs
  /\ state = NoState
  /\ previous = NoState
  /\ pc = "init"
  /\ \E a \in InitArgs :
       ret = [NoCall EXCEPT !.method_order = a.method_order, !.sel = a.sel,
                            !.dt0 = a.dt0]

\* init(term, problem, method_order, dt0)
InitCall ==
  /\ pc = "init"
  /\ LET r == init(self, ret.sel, ret.method_order, ret.dt0)
     IN /\ state' = r.state
        /\ previous' = r.state
        /\ ret' = [ret EXCEPT !.op = "init", !.dt0 = r.dt0, !.f0 = r.f0]
  /\ pc' = "inited"
  /\ UNCHANGED self

\* adapt_step_size(t0, dt, y0, step_result, state, stats)
AdaptStepSize ==
  /\ pc = "step"
  /\ \E dt \in DtTensors, norm \in {<<>>} \cup [Batch -> NormValues] :
       LET r == adapt_step_size(self, dt, norm, state)
       IN /\ state' = r.state
          /\ ret' = [NoCall EXCEPT !.op = "adapt_step_size", !.dt = dt,
                                   !.norm = norm, !.error_ratio = r.error_ratio,
                                   !.accept = r.accept, !.dt_next = r.dt_next,
                                   !.status = r.status]
  /\ pc' = "adapted"
  /\ UNCHANGED <<self, previous>>

\* the loop has read accept, dt_next and status and turns to merge_states
Consume ==
  /\ pc = "adapted"
  /\ pc' = "merge"
  /\ ret' = NoCall
  /\ UNCHANGED <<self, state, previous>>

\* merge_states(running, current, previous)
MergeStates ==
  /\ pc = "merge"
  /\ \E running \in [Batch -> BOOLEAN] :
       /\ state' = merge_states(running, state, previous)
       /\ ret' = [NoCall EXCEPT !.op = "merge_states", !.running = running,
                                !.current = state]
  /\ pc' = "merged"
  /\ UNCHANGED <<self, previous>>

\* the loop keeps the returned state and attempts the next step
Continue ==
  /\ pc \in {"inited", "merged"}
  /\ pc' = "step"
  /\ previous' = state
  /\ ret' = NoCall
  /\ UNCHANGED <<self, state>>

Next == InitCall \/ AdaptStepSize \/ Consume \/ MergeStates \/ Continue

Spec == Init /\ [][Next]_vars

\* merge_states applied to any two PIDStates of this controller
InitMerge ==
  /\ self \in Configs
  /\ state \in MergeArgs
  /\ previous \in MergeArgs
  /\ pc = "merge"
  /\ ret = NoCall

NextMerge == MergeStates

SpecMerge == InitMerge /\ [][NextMerge]_vars

(***************************************************************************)
(* Properties                                                              *)
(***************************************************************************)
Adapted == pc = "adapted"

Estimated == Adapted /\ ret.norm # <<>>

Merged == pc = "merged"

InLower(x, st) == st.dt_min # None => Le(st.dt_min, x)

InUpper(x, st) == st.dt_max # None => Le(x, st.dt_max)

SameHistory(a, b, i) ==
  /\ a.prev_error_ratio[i] = b.prev_error_ratio[i]
  /\ a.prev_prev_error_ratio[i] = b.prev_prev_error_ratio[i]

SameSettings(a, b) ==
  /\ a.method_order = b.method_order
  /\ a.dt_min = b.dt_min
  /\ a.dt_max = b.dt_max
  /\ a.almost_zero = b.almost_zero

\* dt * dt_factor before the hard bounds are enforced
RawDtNext(i) == Mul(ret.dt[i], dt_factor(self, previous, ret.error_ratio)[i])

\* C1: after every adapt_step_size call, with or without an error estimate,
\* dt_next of every batch element lies within the configured dt_min / dt_max.
C1_DtNextWithinBounds ==
  Adapted => \A i \in Batch :
    InLower(ret.dt_next[i], state) /\ InUpper(ret.dt_next[i], state)

\* C1 (amended): when an error estimate is present and the element's error
\* ratio is not NaN, dt_next lies within the configured dt_min / dt_max.
C1_ClampedWhenEstimated ==
  Estimated => \A i \in Batch :
    ~IsNaN(ret.error_ratio[i]) =>
      InLower(ret.dt_next[i], state) /\ InUpper(ret.dt_next[i], state)

\* one call in which the lower bound acts on one element and the upper bound
\* on the other
C1_Witness ==
  /\ Estimated
  /\ state.dt_min # None /\ state.dt_max # None
  /\ \E i, j \in Batch :
       /\ Lt(RawDtNext(i), state.dt_min) /\ ret.dt_next[i] = state.dt_min
       /\ Lt(state.dt_max, RawDtNext(j)) /\ ret.dt_next[j] = state.dt_max

\* C2: a rejected element keeps every field of the state, and the same call
\* repeated on the returned state rejects it again and returns the same state.
C2_RejectLeavesState ==
  Estimated =>
    LET again == adapt_step_size(self, ret.dt, ret.norm, state)
    IN /\ \A i \in Batch : ~ret.accept[i] =>
            /\ SameHistory(state, previous, i)
            /\ SameSettings(state, previous)
            /\ ~again.accept[i]
            /\ SameHistory(again.state, state, i)
            /\ SameSettings(again.state, state)
       /\ (\A i \in Batch : ~ret.accept[i]) =>
            state = previous /\ again.state = state

\* an element with a two-valued history is rejected while the other element
\* of the same call is accepted
C2_Witness ==
  /\ Estimated
  /\ \E i, j \in Batch :
       /\ ~ret.accept[i] /\ Le(One, ret.error_ratio[i])
       /\ previous.prev_error_ratio[i] # previous.prev_prev_error_ratio[i]
       /\ ret.error_ratio[i] # previous.prev_error_ratio[i]
       /\ ret.accept[j]

\* C3: an accepted element's history is shifted (prev_prev takes the old prev,
\* prev takes this step's error ratio); a rejected element's is not.
C3_AcceptShiftsHistory ==
  Estimated => \A i \in Batch :
    IF ret.accept[i]
    THEN /\ state.prev_prev_error_ratio[i] = previous.prev_error_ratio[i]
         /\ state.prev_error_ratio[i] = ret.error_ratio[i]
    ELSE SameHistory(state, previous, i)

C3_Witness ==
  /\ Estimated
  /\ \E i, j \in Batch :
       /\ ret.accept[i] /\ ~ret.accept[j]
       /\ previous.prev_error_ratio[i] # previous.prev_prev_error_ratio[i]
       /\ ret.error_ratio[i] # previous.prev_error_ratio[i]
       /\ state.prev_prev_error_ratio[i] = previous.prev_error_ratio[i]

\* C4: without an error estimate every element is accepted, dt_next is dt,
\* no status is returned, and the history becomes (prev_prev <- prev, prev <- 1).
C4_NoEstimate ==
  (Adapted /\ ret.norm = <<>>) =>
    /\ \A i \in Batch : ret.accept[i]
    /\ ret.dt_next = ret.dt
    /\ ret.status = <<>>
    /\ \A i \in Batch :
         /\ state.prev_prev_error_ratio[i] = previous.prev_error_ratio[i]
         /\ state.prev_error_ratio[i] = One
    /\ SameSettings(state, previous)

\* no estimate, a history that is not neutral, a dt beyond dt_max
C4_Witness ==
  /\ Adapted /\ ret.norm = <<>>
  /\ state.dt_max # None
  /\ \E i \in Batch :
       /\ previous.prev_error_ratio[i] # One
       /\ previous.prev_prev_error_ratio[i] # previous.prev_error_ratio[i]
       /\ Lt(state.dt_max, ret.dt[i])

AllRunning == \A i \in Batch : ret.running[i]

NoneRunning == \A i \in Batch : ~ret.running[i]

\* C5: merge_states returns current when every element is running, previous
\* (every field of it) when none is, and otherwise each element's history
\* pair from current or previous by that element's own mask.
C5_MergeReturnsArguments ==
  Merged =>
    /\ AllRunning => state = ret.current
    /\ NoneRunning => state = previous
    /\ \A i \in Batch :
         SameHistory(state, IF ret.running[i] THEN ret.current ELSE previous, i)

\* C5 (amended): merge_states returns current when every element is running;
\* in every case the result has current's settings and, per element, the
\* history pair of current or previous by that element's own mask, so it is
\* previous when none is running and the two states have the same settings.
C5_MergeSelectsHistory ==
  Merged =>
    /\ AllRunning => state = ret.current
    /\ SameSettings(state, ret.current)
    /\ \A i \in Batch :
         SameHistory(state, IF ret.running[i] THEN ret.current ELSE previous, i)
    /\ (NoneRunning /\ SameSettings(ret.current, previous)) => state = previous

\* a mixed mask over two states whose histories differ in both elements
C5_Witness ==
  /\ Merged
  /\ ret.running[1] /\ ~ret.running[2]
  /\ \A i \in Batch :
       ret.current.prev_error_ratio[i] # previous.prev_error_ratio[i]
  /\ state.prev_error_ratio[1] = ret.current.prev_error_ratio[1]
  /\ state.prev_error_ratio[2] = previous.prev_error_ratio[2]

\* C6: both history slots of every element are always >= almost_zero.
C6_HistoryAboveFloor ==
  pc # "init" => \A i \in Batch :
    /\ Le(state.almost_zero, state.prev_error_ratio[i])
    /\ Le(state.almost_zero, state.prev_prev_error_ratio[i])

\* a norm of zero was raised to the floor, accepted, and shifted through
C6_Witness ==
  /\ Estimated
  /\ \E i \in Batch :
       /\ ret.norm[i] = Zero /\ ret.accept[i]
       /\ state.prev_error_ratio[i] = state.almost_zero
       /\ state.prev_prev_error_ratio[i] = state.almost_zero

\* C7: the step chosen by the initial-step heuristic is at most dt_max =
\* |t_end - t_start| in magnitude and has the sign of the time direction.
C7_InitialStepWithinSpan ==
  (pc = "inited" /\ ret.sel # <<>>) => \A i \in Batch :
    /\ Le(Abs(ret.dt0[i]), Abs(ret.sel[i].span))
    /\ ret.dt0[i] # Zero /\ ~IsNaN(ret.dt0[i])
    /\ ret.dt0[i].s = ret.sel[i].span.s

\* C8: with an error estimate the status is INFINITE_NORM for exactly the
\* elements whose error ratio is infinite or NaN and SUCCESS for the others.
C8_StatusPerElement ==
  Estimated => \A i \in Batch :
    ret.status[i] =
      IF IsInf(ret.norm[i]) \/ IsNaN(ret.norm[i]) THEN "INFINITE_NORM" ELSE "SUCCESS"

C8_Witness ==
  /\ Estimated
  /\ \E i, j \in Batch :
       /\ ret.norm[i] = Inf(1) /\ ret.status[i] = "INFINITE_NORM"
       /\ ret.status[j] = "SUCCESS"

\* C9: with an error estimate an element is accepted iff its error ratio is
\* strictly below 1; a ratio of exactly 1 is rejected.
C9_AcceptIffBelowOne ==
  Estimated => \A i \in Batch :
    ret.accept[i] <=>
      (ret.error_ratio[i].k = "num" /\ ret.error_ratio[i].s = 1
         /\ ret.error_ratio[i].e < 0)

C9_Witness ==
  /\ Estimated
  /\ \E i, j \in Batch :
       /\ ret.error_ratio[i] = One /\ ~ret.accept[i]
       /\ ret.error_ratio[j].k = "num" /\ ret.error_ratio[j].e < 0 /\ ret.accept[j]

\* C10: both history slots of every element are always finite and <= 1, and
\* an element whose status is INFINITE_NORM is never accepted.
C10_HistoryFiniteAtMostOne ==
  pc # "init" =>
    /\ \A i \in Batch :
         /\ IsFinite(state.prev_error_ratio[i])
         /\ Le(state.prev_error_ratio[i], One)
         /\ IsFinite(state.prev_prev_error_ratio[i])
         /\ Le(state.prev_prev_error_ratio[i], One)
    /\ Estimated => \A i \in Batch :
         ret.status[i] = "INFINITE_NORM" => ~ret.accept[i]

\* a NaN error ratio is flagged and kept out of a history that holds an
\* accepted ratio
C10_Witness ==
  /\ Estimated
  /\ \E i \in Batch :
       /\ IsNaN(ret.error_ratio[i]) /\ ret.status[i] = "INFINITE_NORM"
       /\ ~ret.accept[i]
       /\ Lt(state.prev_error_ratio[i], One)

====
